---- MODULE Spec2Model ----
(***************************************************************************)
(* Model of the payments-uz SDK core: the Payme webhook dispatcher         *)
(* (src/payme/PaymeWebhookHandler.ts) and the Payme client's two-phase     *)
(* receipt charge flow (src/payme/PaymeClient.ts).                         *)
(*                                                                         *)
(* JavaScript values are records tagged by field t, so that values of      *)
(* different JavaScript types stay comparable.  Strings that take part in  *)
(* the Basic-auth check are sequences of character codes, because the      *)
(* check decodes base64, masks to 7-bit ASCII and splits on ':'.           *)
(***************************************************************************)
EXTENDS Integers, Sequences, FiniteSets, TLC

\* ------------------------------------------------------------------ bounds
\* Date.now() ranges over 1..MaxNow.
MaxNow == 2

\* --------------------------------------------------------- JavaScript values
Undef == [t |-> "undefined"]
Null == [t |-> "null"]
Num(n) == [t |-> "number", n |-> n]
Str(s) == [t |-> "string", s |-> s]
Obj(k) == [t |-> "object", k |-> k]
Bool(b) == [t |-> "boolean", b |-> b]

\* JavaScript truthiness, as used by `||` and `!`.
Truthy(v) ==
    CASE v.t = "undefined" -> FALSE
      [] v.t = "null" -> FALSE
      [] v.t = "number" -> v.n # 0
      [] v.t = "string" -> v.s # ""
      [] v.t = "boolean" -> v.b
      [] OTHER -> TRUE

\* a || b
OrElse(a, b) == IF Truthy(a) THEN a ELSE b

\* ------------------------------------------------------------------- errors
\* new PaymeError(message, code, data)
PaymeError(message, code, data) ==
    [t |-> "PaymeError", message |-> message, code |-> code, data |-> data]

\* new Error(message) and the engine's TypeError
Error(message) == [t |-> "Error", message |-> Str(message)]

TypeError(message) == [t |-> "TypeError", message |-> Str(message)]

\* Variant: the prototype chain is lost and instanceof never matches.
InstanceOfPaymeError_Never(e) == FALSE

\* error instanceof PaymeError
InstanceOfPaymeError(e) == e.t = "PaymeError"

\* ------------------------------------------------- character-code strings
Colon == 58
Pad == 61
BasicPrefix == <<66, 97, 115, 105, 99, 32>>
BearerPrefix == <<66, 101, 97, 114, 101, 114, 32>>
PAYME_LOGIN == <<80, 97, 121, 99, 111, 109>>

\* s.startsWith(p)
StartsWith(s, p) == Len(s) >= Len(p) /\ SubSeq(s, 1, Len(p)) = p

\* s.substring(n)
Substring(s, n) == SubSeq(s, n + 1, Len(s))

\* The base64 alphabet: sextet value -> character code.
B64Char(i) ==
    IF i < 26 THEN 65 + i
    ELSE IF i < 52 THEN 97 + (i - 26)
    ELSE IF i < 62 THEN 48 + (i - 52)
    ELSE IF i = 62 THEN 43 ELSE 47

\* Character code -> sextet value, -1 for a character outside the alphabet.
B64Val(c) ==
    IF c >= 65 /\ c <= 90 THEN c - 65
    ELSE IF c >= 97 /\ c <= 122 THEN c - 97 + 26
    ELSE IF c >= 48 /\ c <= 57 THEN c - 48 + 52
    ELSE IF c = 43 \/ c = 45 THEN 62
    ELSE IF c = 47 \/ c = 95 THEN 63
    ELSE -1

\* Buffer.from(bytes).toString('base64'), as the sender of the header does.
RECURSIVE B64Encode(_)
B64Encode(b) ==
    IF Len(b) = 0 THEN <<>>
    ELSE IF Len(b) = 1 THEN
        <<B64Char(b[1] \div 4), B64Char((b[1] % 4) * 16), Pad, Pad>>
    ELSE IF Len(b) = 2 THEN
        <<B64Char(b[1] \div 4), B64Char((b[1] % 4) * 16 + (b[2] \div 16)),
          B64Char((b[2] % 16) * 4), Pad>>
    ELSE
        <<B64Char(b[1] \div 4), B64Char((b[1] % 4) * 16 + (b[2] \div 16)),
          B64Char((b[2] % 16) * 4 + (b[3] \div 64)), B64Char(b[3] % 64)>>
        \o B64Encode(SubSeq(b, 4, Len(b)))

\* The sextets of a base64 text: decoding stops at the first '=' and skips
\* characters outside the alphabet.
RECURSIVE B64Sextets(_)
B64Sextets(s) ==
    IF Len(s) = 0 \/ s[1] = Pad THEN <<>>
    ELSE IF B64Val(s[1]) < 0 THEN B64Sextets(Tail(s))
    ELSE <<B64Val(s[1])>> \o B64Sextets(Tail(s))

RECURSIVE B64Bytes(_)
B64Bytes(x) ==
    IF Len(x) < 2 THEN <<>>
    ELSE IF Len(x) = 2 THEN <<x[1] * 4 + (x[2] \div 16)>>
    ELSE IF Len(x) = 3 THEN
        <<x[1] * 4 + (x[2] \div 16), (x[2] % 16) * 16 + (x[3] \div 4)>>
    ELSE
        <<x[1] * 4 + (x[2] \div 16), (x[2] % 16) * 16 + (x[3] \div 4),
          (x[3] % 4) * 64 + x[4]>>
        \o B64Bytes(SubSeq(x, 5, Len(x)))

\* Buffer.from(text, 'base64')
B64Decode(s) == B64Bytes(B64Sextets(s))

\* buffer.toString('ascii'): the high bit of every byte is cleared.
ToAscii(b) == [i \in 1..Len(b) |-> b[i] % 128]

\* Index of the first ':' in s, 0 when there is none.
RECURSIVE FirstColonFrom(_, _)
FirstColonFrom(s, i) ==
    IF i > Len(s) THEN 0
    ELSE IF s[i] = Colon THEN i
    ELSE FirstColonFrom(s, i + 1)

\* s.split(':'): the sequence of all segments between colons.
RECURSIVE Split(_)
Split(s) ==
    LET i == FirstColonFrom(s, 1) IN
    IF i = 0 THEN <<s>>
    ELSE <<SubSeq(s, 1, i - 1)>> \o Split(SubSeq(s, i + 1, Len(s)))

\* const [login, password] = parts: a missing element is undefined.
Element(parts, n) ==
    IF Len(parts) >= n THEN [defined |-> TRUE, s |-> parts[n]]
    ELSE [defined |-> FALSE, s |-> <<>>]

\* a !== b for a destructured element and a string
StrictNotEqual(e, s) == ~e.defined \/ e.s # s

\* ----------------------------------------------------------- input domains
\* Secrets, logins and passwords as character-code strings:
\* "k", "k:z", "w", "A" and "Paycom" with the high bit of 'P' set.
SecretK == <<107>>
SecretKZ == <<107, 58, 122>>
SecretKeys == {SecretK, SecretKZ}
Passwords == SecretKeys \cup {<<119>>}
Logins == {PAYME_LOGIN, <<65>>, <<208, 97, 121, 99, 111, 109>>}
Credentials ==
    {l \o <<Colon>> \o p : l \in Logins, p \in Passwords} \cup {PAYME_LOGIN, <<>>}

\* An Authorization header: absent, empty, Basic or Bearer.
NoHeader == [defined |-> FALSE, s |-> <<>>]
HeaderOf(s) == [defined |-> TRUE, s |-> s]
Headers ==
    {NoHeader, HeaderOf(<<>>),
     HeaderOf(BearerPrefix \o B64Encode(PAYME_LOGIN \o <<Colon>> \o SecretK))}
    \cup {HeaderOf(BasicPrefix \o B64Encode(c)) : c \in Credentials}

KnownMethods ==
    {"CheckPerformTransaction", "CreateTransaction", "PerformTransaction",
     "CancelTransaction", "CheckTransaction", "GetStatement"}
Methods == {Str(m) : m \in KnownMethods} \cup {Str("UnknownMethod"), Undef}
Ids == {Undef, Num(0), Num(7), Str(""), Str("130")}
ParamsSet == {Undef, Obj("p1")}

\* A request body: undefined, null, a primitive, or an object whose missing
\* keys read as undefined.
Request(id, method, params) ==
    [t |-> "object", id |-> id, method |-> method, params |-> params]
Bodies ==
    {Undef, Null, Num(5)}
    \cup {Request(i, m, p) : i \in Ids, m \in Methods, p \in ParamsSet}

\* What an operation of the injected logic does: it resolves {result} or
\* {error} (its declared return type), or it rejects with any value.
JsonRpcError(code, message, data) ==
    [t |-> "rpcerror", code |-> code, message |-> message, data |-> data]
\* The localized message of a JSON-RPC error; an absent locale is undefined.
Message(en, ru, uz) == [t |-> "object", en |-> en, ru |-> ru, uz |-> uz]
ResultObject(r) == [keys |-> {"result"}, result |-> r, error |-> Undef]
ErrorObject(e) == [keys |-> {"error"}, result |-> Undef, error |-> e]
LogicResults == {Obj("r1"), Obj("r2")}
LogicErrors ==
    {JsonRpcError(-31050, Message(Str("Order not found"), Undef, Undef), Str("order_id"))}
Thrown ==
    {PaymeError(Str("Test error"), -32000, Obj("d1")), Error("Unexpected error"),
     Str("boom"), Null, Undef}
LogicOutcomes ==
    {[k |-> "resolve", v |-> ResultObject(r)] : r \in LogicResults}
    \cup {[k |-> "resolve", v |-> ErrorObject(e)] : e \in LogicErrors}
    \cup {[k |-> "reject", v |-> x] : x \in Thrown}

\* ------------------------------------------------------------------- state
VARIABLES
    secretKey,   \* PaymeWebhookHandler.secretKey, fixed at construction
    now,         \* the clock read by Date.now()
    hpc,         \* position of the handle call: "idle", "awaiting", "done"
    hbody,       \* the body argument of the call in progress
    hheader,     \* the authorizationHeader argument of the call in progress
    invoked,     \* the logic operations invoked by the call: <<[op, params, id]>>
    loutcome,    \* what the awaited logic operation did
    hres,        \* how the promise returned by handle settled
    cpc,         \* position of chargeFromCardToken: "idle", "create", "pay", "done"
    cparams,     \* the ProcessPaymentParams of the charge in progress
    sent,        \* the JSON-RPC requests posted by the charge, in order
    received,    \* what httpClient.post did for each of them, in order
    cres,        \* how the promise returned by chargeFromCardToken settled
    ppc,         \* position of a single-RPC PaymeClient operation: "idle", "awaiting", "done"
    pcall,       \* that operation and its argument
    psent,       \* the JSON-RPC requests it posted
    preceived,   \* what httpClient.post did for them
    pres,        \* how the operation's promise settled
    kpc,         \* position of a ClickClient operation: "idle", "awaiting", "done"
    kcall,       \* that operation and its argument
    ksent,       \* the HTTP calls it made
    kreceived,   \* what the HttpClient did for them
    kres,        \* how the operation's promise settled
    fin,         \* the argument of a synchronous function call
    fout,        \* how that call ended
    lifecycle,   \* history: the card tokens created and verified so far
    calls        \* the concurrent invocations on one PaymeClient, by number

hstate == <<hpc, hbody, hheader, invoked, loutcome, hres>>
cstate == <<cpc, cparams, sent, received, cres>>
pstate == <<ppc, pcall, psent, preceived, pres>>
kstate == <<kpc, kcall, ksent, kreceived, kres>>
fstate == <<fin, fout>>
xstate == <<pstate, kstate, fstate>>
vars == <<secretKey, now, hstate, cstate, xstate, lifecycle, calls>>

\* ------------------------------------------------- PaymeWebhookHandler.ts
\* How a synchronous step ends: it returns (a value) or throws.
Returned == [threw |-> FALSE, err |-> Undef, val |-> Undef]
ReturnedValue(v) == [threw |-> FALSE, err |-> Undef, val |-> v]
Threw(e) == [threw |-> TRUE, err |-> e, val |-> Undef]

\* verifyAuth(authHeader): returns normally or throws PaymeError -32504.
verifyAuth(authHeader, secret) ==
    IF ~authHeader.defined \/ authHeader.s = <<>>
       \/ ~StartsWith(authHeader.s, BasicPrefix)
    THEN Threw(PaymeError(Str("Unauthorized"), -32504,
                          Str("Authorization header missing or invalid")))
    ELSE
        LET credentials == ToAscii(B64Decode(Substring(authHeader.s, 6)))
            parts == Split(credentials)
            login == Element(parts, 1)
            password == Element(parts, 2)
        IN  IF StrictNotEqual(login, PAYME_LOGIN) \/ StrictNotEqual(password, secret)
            THEN Threw(PaymeError(Str("Unauthorized"), -32504,
                                  Str("Invalid login or password")))
            ELSE Returned

\* const { id, method, params } = request: throws on null and undefined,
\* reads undefined from a primitive.
CanDestructure(body) == body.t \notin {"undefined", "null"}
Field(body, f) ==
    IF body.t = "object" /\ f \in DOMAIN body THEN body[f] ELSE Undef

\* body?.id
BodyId(body) == Field(body, "id")

\* Variant: the PerformTransaction and CancelTransaction cases are swapped.
LogicOp_Swapped(method) ==
    CASE method = Str("CheckPerformTransaction") -> "checkPerformTransaction"
      [] method = Str("CreateTransaction") -> "createTransaction"
      [] method = Str("PerformTransaction") -> "cancelTransaction"
      [] method = Str("CancelTransaction") -> "performTransaction"
      [] method = Str("CheckTransaction") -> "checkTransaction"
      [] method = Str("GetStatement") -> "getStatement"
      [] OTHER -> "none"

\* switch (method): the logic operation of a method, "none" for default.
LogicOp(method) ==
    CASE method = Str("CheckPerformTransaction") -> "checkPerformTransaction"
      [] method = Str("CreateTransaction") -> "createTransaction"
      [] method = Str("PerformTransaction") -> "performTransaction"
      [] method = Str("CancelTransaction") -> "cancelTransaction"
      [] method = Str("CheckTransaction") -> "checkTransaction"
      [] method = Str("GetStatement") -> "getStatement"
      [] OTHER -> "none"

Resolved(env) == [kind |-> "resolved", env |-> env, err |-> Undef]
Rejected(e) == [kind |-> "rejected", env |-> Undef, err |-> e]
Pending == [kind |-> "none", env |-> Undef, err |-> Undef]

\* return { id, ...response }
SuccessEnvelope(id, response) ==
    [id |-> id, keys |-> {"id"} \cup response.keys,
     result |-> response.result, error |-> response.error]

\* Variant: the error envelope also carries a result key.
ErrorEnvelope_WithResult(body, time, jsonRpcError) ==
    [id |-> OrElse(Field(body, "id"), Num(time)), keys |-> {"id", "result", "error"},
     result |-> Null, error |-> jsonRpcError]

\* return { id: body?.id || Date.now(), error: jsonRpcError }
ErrorEnvelope(body, time, jsonRpcError) ==
    [id |-> OrElse(BodyId(body), Num(time)), keys |-> {"id", "error"},
     result |-> Undef, error |-> jsonRpcError]

\* (error as Error).message: a property read, which throws on null/undefined.
HasProperties(v) == v.t \notin {"undefined", "null"}

\* Variant: the caught error's message is not passed on.
MessageOf_None(v) == Undef

MessageOf(v) == IF "message" \in DOMAIN v THEN v.message ELSE Undef

\* The catch block of handle: the settlement of the promise.
CatchBlock(error, body, time) ==
    IF InstanceOfPaymeError(error)
    THEN Resolved(ErrorEnvelope(body, time,
             JsonRpcError(error.code, Message(error.message, Undef, Undef), error.data)))
    ELSE IF ~HasProperties(error)
    THEN Rejected(TypeError("Cannot read properties of null or undefined"))
    ELSE Resolved(ErrorEnvelope(body, time,
             JsonRpcError(-32400, Message(Str("Internal Server Error"), Undef, Undef),
                          MessageOf(error))))

\* handle(body, authorizationHeader) up to its first await: authentication,
\* destructuring and the switch.  It either settles at once through the
\* catch block or invokes one logic operation and waits for it.
HandleCall(body, header) ==
    /\ hpc = "idle"
    /\ hbody' = body
    /\ hheader' = header
    /\ loutcome' = [k |-> "none", v |-> Undef]
    /\ LET auth == verifyAuth(header, secretKey) IN
       IF auth.threw
       THEN /\ hres' = CatchBlock(auth.err, body, now)
            /\ invoked' = <<>>
            /\ hpc' = "done"
       ELSE IF ~CanDestructure(body)
       THEN /\ hres' = CatchBlock(TypeError("Cannot destructure property 'id'"), body, now)
            /\ invoked' = <<>>
            /\ hpc' = "done"
       ELSE IF LogicOp(Field(body, "method")) = "none"
       THEN /\ hres' = CatchBlock(PaymeError(Str("Method not found"), -32601, Undef), body, now)
            /\ invoked' = <<>>
            /\ hpc' = "done"
       ELSE /\ invoked' = <<[op |-> LogicOp(Field(body, "method")),
                            params |-> Field(body, "params"),
                            id |-> Field(body, "id")]>>
            /\ hres' = Pending
            /\ hpc' = "awaiting"
    /\ UNCHANGED <<calls, lifecycle, xstate, secretKey, now, cstate>>

\* The awaited logic operation settles; handle returns the envelope or runs
\* its catch block.
LogicSettles(o) ==
    /\ hpc = "awaiting"
    /\ loutcome' = o
    /\ hres' = IF o.k = "resolve"
               THEN Resolved(SuccessEnvelope(Field(hbody, "id"), o.v))
               ELSE CatchBlock(o.v, hbody, now)
    /\ hpc' = "done"
    /\ UNCHANGED <<calls, lifecycle, xstate, secretKey, now, hbody, hheader, invoked, cstate>>

\* Variant: the handler replaces its secret once it has answered a request.
Deliver_ReplacesSecret ==
    /\ hpc = "done"
    /\ hpc' = "idle"
    /\ hbody' = Undef
    /\ hheader' = NoHeader
    /\ invoked' = <<>>
    /\ loutcome' = [k |-> "none", v |-> Undef]
    /\ hres' = Pending
    /\ secretKey' = SecretKZ
    /\ UNCHANGED <<calls, lifecycle, xstate, now, cstate>>

\* The transport layer takes the settled promise; the handler is ready for
\* the next request.
Deliver ==
    /\ hpc = "done"
    /\ hpc' = "idle"
    /\ hbody' = Undef
    /\ hheader' = NoHeader
    /\ invoked' = <<>>
    /\ loutcome' = [k |-> "none", v |-> Undef]
    /\ hres' = Pending
    /\ UNCHANGED <<calls, lifecycle, xstate, secretKey, now, cstate>>

\* Time passes.
Tick ==
    /\ now < MaxNow
    /\ now' = now + 1
    /\ UNCHANGED <<calls, lifecycle, xstate, secretKey, hstate, cstate>>

\* No handle call in progress.
HandlerIdle ==
    /\ hpc = "idle"
    /\ hbody = Undef
    /\ hheader = NoHeader
    /\ invoked = <<>>
    /\ loutcome = [k |-> "none", v |-> Undef]
    /\ hres = Pending

\* No charge in progress.
ClientIdle ==
    /\ cpc = "idle"
    /\ cparams = Undef
    /\ sent = <<>>
    /\ received = <<>>
    /\ cres = Pending

\* No single-RPC PaymeClient operation in progress.
RpcIdle ==
    /\ ppc = "idle"
    /\ pcall = Undef
    /\ psent = <<>>
    /\ preceived = <<>>
    /\ pres = Pending

\* No ClickClient operation in progress.
ClickIdle ==
    /\ kpc = "idle"
    /\ kcall = Undef
    /\ ksent = <<>>
    /\ kreceived = <<>>
    /\ kres = Pending

\* No synchronous function call under way.
NoFunctionCall ==
    /\ fin = Undef
    /\ fout = Pending

\* No card token has been created yet.
NoCards == lifecycle = {}

\* At most MaxInvocations invocations run at once on one PaymeClient; none
\* has started.
MaxInvocations == 2
Invocations == 1..MaxInvocations
NotInvoked == [pc |-> "idle", call |-> Undef, sent |-> <<>>, received |-> <<>>, res |-> Pending]
NoInvocations == calls = [i \in Invocations |-> NotInvoked]

\* new PaymeWebhookHandler({secretKey, logic}) with a non-empty secret.
InitWebhook ==
    /\ secretKey \in SecretKeys
    /\ now = 1
    /\ HandlerIdle
    /\ ClientIdle
    /\ RpcIdle
    /\ ClickIdle
    /\ NoFunctionCall
    /\ NoCards
    /\ NoInvocations

NextWebhook ==
    \/ \E body \in Bodies, header \in Headers : HandleCall(body, header)
    \/ \E o \in LogicOutcomes : LogicSettles(o)
    \/ Deliver
    \/ Tick

SpecWebhook == InitWebhook /\ [][NextWebhook]_vars

\* --------------------------------------------------------- PaymentStatus
PENDING == "pending"
SUCCESS == "success"
FAILED == "failed"
CANCELLED == "cancelled"
REFUNDED == "refunded"

\* getStatusFromPaymeReceiptState(paymeStateCode)
getStatusFromPaymeReceiptState(paymeStateCode) ==
    CASE paymeStateCode = Num(0) -> PENDING
      [] paymeStateCode = Num(1) -> PENDING
      [] paymeStateCode = Num(2) -> SUCCESS
      [] paymeStateCode = Num(3) -> CANCELLED
      [] paymeStateCode = Num(4) -> CANCELLED
      [] paymeStateCode = Num(5) -> PENDING
      [] paymeStateCode = Num(6) -> REFUNDED
      [] OTHER -> FAILED

\* Variant: the locales are tried in the order uz, ru, en.
fromJsonRpcError_UzFirst(error) ==
    LET m == error.message
        message ==
            IF m.t \in {"undefined", "null"} THEN Str("Unknown Payme Error")
            ELSE OrElse(m.uz, OrElse(m.ru, OrElse(m.en, Str("Unknown Payme Error"))))
    IN  PaymeError(message, error.code, error.data)

\* PaymeError.fromJsonRpcError(error)
fromJsonRpcError(error) ==
    LET m == error.message
        message ==
            IF m.t \in {"undefined", "null"} THEN Str("Unknown Payme Error")
            ELSE OrElse(m.en, OrElse(m.ru, OrElse(m.uz, Str("Unknown Payme Error"))))
    IN  PaymeError(message, error.code, error.data)

\* --------------------------------------------------- charge input domains
\* The random suffix of a request id ranges over 0..MaxRandom.
MaxRandom == 1
Randoms == 0..MaxRandom

CardTokens == {Str("tok1"), Str("tok2")}
Amounts == {0, 1, 1000}
OrderIds == {Str("order-123")}
ChargeParams ==
    {[t |-> "object", cardToken |-> c, amount |-> Num(a), orderId |-> o] :
        c \in CardTokens, a \in Amounts, o \in OrderIds}

\* Receipts the provider may return: the id may be missing or empty.
ReceiptIds == {Undef, Str(""), Str("r1"), Str("r2")}
ReceiptStates == {Num(2), Num(4)}
Receipt(id, state) == [t |-> "object", _id |-> id, state |-> state]
ReceiptResult(receipt) == [t |-> "object", receipt |-> receipt]
ProviderErrors ==
    {JsonRpcError(-31630, Message(Undef, Str("Nedostatochno sredstv"), Undef), Undef)}
RpcResponse(result, error) == [t |-> "object", result |-> result, error |-> error]
RpcResults ==
    {ReceiptResult(Receipt(i, s)) : i \in ReceiptIds, s \in ReceiptStates}
    \cup {ReceiptResult(Undef)}

\* What httpClient.post does: it resolves a parsed JSON-RPC response or
\* rejects (network error, timeout, non-2xx).
HttpOutcomes ==
    {[k |-> "reject", v |-> Error("Request timeout")]}
    \cup {[k |-> "resolve", v |-> RpcResponse(Undef, e)] : e \in ProviderErrors}
    \cup {[k |-> "resolve", v |-> RpcResponse(ReceiptResult(Receipt(Str("r1"), Num(2))), e)] :
            e \in ProviderErrors}
    \cup {[k |-> "resolve", v |-> RpcResponse(Undef, Undef)]}
    \cup {[k |-> "resolve", v |-> RpcResponse(r, Undef)] : r \in RpcResults}

\* ------------------------------------------------------------ PaymeClient.ts
\* request(): the JSON-RPC request body, with id `${Date.now()}-${random}`.
requestBody(time, random, method, params) ==
    [id |-> [time |-> time, random |-> random], method |-> method, params |-> params]

\* Variant: a result is returned even when the response carries an error.
request_ResultFirst(http) ==
    IF http.k = "reject" THEN Threw(http.v)
    ELSE IF Truthy(http.v.result) THEN ReturnedValue(http.v.result)
    ELSE IF Truthy(http.v.error) THEN Threw(fromJsonRpcError(http.v.error))
    ELSE Threw(PaymeError(Str("Received empty result from Payme API."), -32000, Undef))

\* request(): what it does once httpClient.post has settled.
request(http) ==
    IF http.k = "reject" THEN Threw(http.v)
    ELSE IF Truthy(http.v.error) THEN Threw(fromJsonRpcError(http.v.error))
    ELSE IF ~Truthy(http.v.result)
    THEN Threw(PaymeError(Str("Received empty result from Payme API."), -32000, Undef))
    ELSE ReturnedValue(http.v.result)

\* Variant: the amount is sent as given, in major units.
createReceiptParams_NoConversion(params) ==
    [amount |-> params.amount,
     account |-> [order_id |-> params.orderId],
     description |-> <<"Payment for order ", params.orderId>>]

\* chargeFromCardToken: createReceiptParams
createReceiptParams(params) ==
    [amount |-> Num(params.amount.n * 100),
     account |-> [order_id |-> params.orderId],
     description |-> <<"Payment for order ", params.orderId>>]

\* Variant: only a missing id counts, an empty one does not.
receiptIdMissing_UndefinedOnly(receiptId) == receiptId = Undef

\* chargeFromCardToken: if (!receiptId)
receiptIdMissing(receiptId) == ~Truthy(receiptId)

\* Variant: the receipt is addressed by the caller's order id.
payReceiptParams_OrderId(receiptId, params) ==
    [id |-> params.orderId, token |-> params.cardToken]

\* chargeFromCardToken: payReceiptParams
payReceiptParams(receiptId, params) == [id |-> receiptId, token |-> params.cardToken]

\* chargeFromCardToken: the returned ProcessedReceiptResult
ProcessedReceiptResult(receipt) ==
    [transactionId |-> receipt._id,
     status |-> getStatusFromPaymeReceiptState(receipt.state),
     receipt |-> receipt]

\* result.receipt._id and result.receipt.state throw a TypeError when the
\* result carries no receipt.
ReceiptReadThrows(result) == result.receipt.t \in {"undefined", "null"}

\* chargeFromCardToken(params) up to its first await: receipts.create is
\* posted.
ChargeCall(params, random) ==
    /\ cpc = "idle"
    /\ cparams' = params
    /\ sent' = <<requestBody(now, random, "receipts.create", createReceiptParams(params))>>
    /\ received' = <<>>
    /\ cres' = Pending
    /\ cpc' = "create"
    /\ UNCHANGED <<calls, lifecycle, xstate, secretKey, now, hstate>>

\* The receipts.create post settles: the charge fails, or receipts.pay is
\* posted with the created receipt's id.
CreateSettles(http, random) ==
    /\ cpc = "create"
    /\ received' = Append(received, http)
    /\ LET createResult == request(http) IN
       IF createResult.threw
       THEN /\ cres' = Rejected(createResult.err)
            /\ cpc' = "done"
            /\ UNCHANGED sent
       ELSE IF ReceiptReadThrows(createResult.val)
       THEN /\ cres' = Rejected(TypeError("Cannot read properties of undefined (reading '_id')"))
            /\ cpc' = "done"
            /\ UNCHANGED sent
       ELSE IF receiptIdMissing(createResult.val.receipt._id)
       THEN /\ cres' = Rejected(PaymeError(Str("Failed to create receipt."), -32001, Undef))
            /\ cpc' = "done"
            /\ UNCHANGED sent
       ELSE /\ sent' = Append(sent, requestBody(now, random, "receipts.pay",
                              payReceiptParams(createResult.val.receipt._id, cparams)))
            /\ cpc' = "pay"
            /\ UNCHANGED cres
    /\ UNCHANGED <<calls, lifecycle, xstate, secretKey, now, hstate, cparams>>

\* The receipts.pay post settles: the charge fails or returns the processed
\* receipt.
PaySettles(http) ==
    /\ cpc = "pay"
    /\ received' = Append(received, http)
    /\ LET payResult == request(http) IN
       cres' = IF payResult.threw THEN Rejected(payResult.err)
               ELSE IF ReceiptReadThrows(payResult.val)
               THEN Rejected(TypeError("Cannot read properties of undefined (reading '_id')"))
               ELSE Resolved(ProcessedReceiptResult(payResult.val.receipt))
    /\ cpc' = "done"
    /\ UNCHANGED <<calls, lifecycle, xstate, secretKey, now, hstate, cparams, sent>>

\* The caller takes the settled promise; the client is ready for the next
\* charge.
ChargeDeliver ==
    /\ cpc = "done"
    /\ cpc' = "idle"
    /\ cparams' = Undef
    /\ sent' = <<>>
    /\ received' = <<>>
    /\ cres' = Pending
    /\ UNCHANGED <<calls, lifecycle, xstate, secretKey, now, hstate>>

\* new PaymeClient(config) with non-empty credentials.
InitCharge ==
    /\ secretKey = SecretK
    /\ now = 1
    /\ HandlerIdle
    /\ ClientIdle
    /\ RpcIdle
    /\ ClickIdle
    /\ NoFunctionCall
    /\ NoCards
    /\ NoInvocations

NextCharge ==
    \/ \E params \in ChargeParams, random \in Randoms : ChargeCall(params, random)
    \/ \E http \in HttpOutcomes, random \in Randoms : CreateSettles(http, random)
    \/ \E http \in HttpOutcomes : PaySettles(http)
    \/ ChargeDeliver
    \/ Tick

SpecCharge == InitCharge /\ [][NextCharge]_vars

\* ------------------------------------- PaymeClient: single-RPC operations
\* The operations that make one RPC, and their arguments.
RpcCalls ==
    {[op |-> "createCardToken",
      params |-> [cardNumber |-> Str("8600123412341234"), expireDate |-> Str("0399"), save |-> s]] :
        s \in {Undef, Bool(FALSE)}}
    \cup {[op |-> "sendVerificationCode", params |-> Str("tok1")]}
    \cup {[op |-> "verifyCard", params |-> [cardToken |-> Str("tok1"), smsCode |-> Str("111111")]]}
    \cup {[op |-> o, params |-> Str("r1")] : o \in {"checkReceiptStatus", "cancelReceipt"}}

\* The JSON-RPC method and params of each operation.
rpcMethodOf(call) ==
    CASE call.op = "createCardToken" -> "cards.create"
      [] call.op = "sendVerificationCode" -> "cards.get_verify_code"
      [] call.op = "verifyCard" -> "cards.verify"
      [] call.op = "checkReceiptStatus" -> "receipts.check"
      [] call.op = "cancelReceipt" -> "receipts.cancel"
rpcParamsOf(call) ==
    CASE call.op = "createCardToken" ->
           [card |-> [number |-> call.params.cardNumber, expire |-> call.params.expireDate],
            save |-> IF call.params.save \in {Undef, Null} THEN Bool(TRUE) ELSE call.params.save]
      [] call.op = "sendVerificationCode" -> [token |-> call.params]
      [] call.op = "verifyCard" -> [token |-> call.params.cardToken, code |-> call.params.smsCode]
      [] OTHER -> [id |-> call.params]

\* The results the provider may return; a field that is not there reads as
\* undefined.  A cancelled receipt comes back in state -1 or 4.
PaymeResult(card, sentFlag, state, receipt) ==
    [t |-> "object", card |-> card, sent |-> sentFlag, state |-> state, receipt |-> receipt]
Card(token, verify) == [t |-> "object", token |-> token, verify |-> verify]
CheckedStates == {Num(-1), Num(2), Num(4)}
PaymeResults ==
    {PaymeResult(Card(Str("tok1"), Bool(v)), Undef, Undef, Undef) : v \in BOOLEAN}
    \cup {PaymeResult(Undef, Bool(v), Undef, Undef) : v \in BOOLEAN}
    \cup {PaymeResult(Undef, Undef, s, Undef) : s \in CheckedStates}
    \cup {PaymeResult(Undef, Undef, Undef, Receipt(Str("r1"), s)) : s \in {Num(-1), Num(4)}}
    \cup {PaymeResult(Undef, Undef, Undef, Undef)}
RpcHttpOutcomes ==
    {[k |-> "reject", v |-> Error("Request timeout")]}
    \cup {[k |-> "resolve", v |-> RpcResponse(r, e)] :
            r \in PaymeResults \cup {Undef}, e \in ProviderErrors \cup {Undef}}

\* result.card.token and result.card.verify throw a TypeError when the result
\* carries no card.
CardReadThrows(result) == result.card.t \in {"undefined", "null"}

\* What each operation returns for the result of its RPC.
rpcProcess(call, result) ==
    CASE call.op = "createCardToken" ->
           IF CardReadThrows(result)
           THEN Threw(TypeError("Cannot read properties of undefined (reading 'token')"))
           ELSE ReturnedValue([t |-> "object", cardToken |-> result.card.token,
                               requiresVerification |-> Bool(~Truthy(result.card.verify))])
      [] call.op = "sendVerificationCode" -> ReturnedValue(result.sent)
      [] call.op = "verifyCard" ->
           IF CardReadThrows(result)
           THEN Threw(TypeError("Cannot read properties of undefined (reading 'token')"))
           ELSE ReturnedValue([t |-> "object", cardToken |-> result.card.token,
                               isVerified |-> result.card.verify])
      [] call.op = "checkReceiptStatus" ->
           ReturnedValue([t |-> "object", status |-> getStatusFromPaymeReceiptState(result.state)])
      [] call.op = "cancelReceipt" ->
           IF ReceiptReadThrows(result)
           THEN Threw(TypeError("Cannot read properties of undefined (reading '_id')"))
           ELSE ReturnedValue(ProcessedReceiptResult(result.receipt))

\* What a settled operation adds to the history of card tokens: a token
\* created as requiring verification, or a token verified.
paymeLifecycle(call, settled) ==
    IF settled.kind # "resolved" THEN {}
    ELSE IF call.op = "createCardToken" /\ Truthy(settled.env.requiresVerification)
    THEN {<<"payme", settled.env.cardToken, "created">>}
    ELSE IF call.op = "verifyCard" /\ Truthy(settled.env.isVerified)
    THEN {<<"payme", settled.env.cardToken, "verified">>}
    ELSE {}

\* An operation is called: its RPC is posted.
RpcCall(call, random) ==
    /\ ppc = "idle"
    /\ pcall' = call
    /\ psent' = <<requestBody(now, random, rpcMethodOf(call), rpcParamsOf(call))>>
    /\ preceived' = <<>>
    /\ pres' = Pending
    /\ ppc' = "waiting"
    /\ UNCHANGED <<calls, lifecycle, secretKey, now, hstate, cstate, kstate, fstate>>

\* The post settles and the operation's promise with it.
RpcSettles(http) ==
    /\ ppc = "waiting"
    /\ preceived' = Append(preceived, http)
    /\ LET result == request(http)
           outcome == IF result.threw THEN result ELSE rpcProcess(pcall, result.val)
       IN  pres' = IF outcome.threw THEN Rejected(outcome.err) ELSE Resolved(outcome.val)
    /\ lifecycle' = lifecycle \cup paymeLifecycle(pcall, pres')
    /\ ppc' = "done"
    /\ UNCHANGED <<calls, secretKey, now, hstate, cstate, kstate, fstate, pcall, psent>>

\* The caller takes the settled promise.
RpcDeliver ==
    /\ ppc = "done"
    /\ ppc' = "idle"
    /\ pcall' = Undef
    /\ psent' = <<>>
    /\ preceived' = <<>>
    /\ pres' = Pending
    /\ UNCHANGED <<calls, lifecycle, secretKey, now, hstate, cstate, kstate, fstate>>

\* Every operation of one PaymeClient, called one at a time.
InitRpc == InitCharge

NextRpc ==
    \/ \E call \in RpcCalls, random \in Randoms : cpc = "idle" /\ RpcCall(call, random)
    \/ \E http \in RpcHttpOutcomes : RpcSettles(http)
    \/ RpcDeliver
    \/ \E params \in ChargeParams, random \in Randoms : ppc = "idle" /\ ChargeCall(params, random)
    \/ \E http \in HttpOutcomes, random \in Randoms : CreateSettles(http, random)
    \/ \E http \in HttpOutcomes : PaySettles(http)
    \/ ChargeDeliver
    \/ Tick

SpecRpc == InitRpc /\ [][NextRpc]_vars

\* ------------------------------------------------------------ ClickError
\* new ClickError(message, code)
ClickError(message, code) == [t |-> "ClickError", message |-> message, code |-> code]

\* ------------------------------------------------------- click/status.ts
\* Variant: an unrecognized code is reported as pending.
getStatusFromClickCode_DefaultPending(clickStatusCode) ==
    CASE clickStatusCode = Num(0) -> PENDING
      [] clickStatusCode = Num(1) -> PENDING
      [] clickStatusCode = Num(2) -> SUCCESS
      [] clickStatusCode = Num(3) -> CANCELLED
      [] clickStatusCode = Num(5) -> CANCELLED
      [] clickStatusCode = Num(4) -> REFUNDED
      [] OTHER -> PENDING

\* getStatusFromClickCode(clickStatusCode)
getStatusFromClickCode(clickStatusCode) ==
    CASE clickStatusCode = Num(0) -> PENDING
      [] clickStatusCode = Num(1) -> PENDING
      [] clickStatusCode = Num(2) -> SUCCESS
      [] clickStatusCode = Num(3) -> CANCELLED
      [] clickStatusCode = Num(5) -> CANCELLED
      [] clickStatusCode = Num(4) -> REFUNDED
      [] OTHER -> FAILED

\* -------------------------------------------------------- click/utils.ts
\* String(v) as Array.prototype.join applies it: null and undefined give ''.
ToStr(v) ==
    CASE v.t = "string" -> v.s
      [] v.t = "number" -> ToString(v.n)
      [] OTHER -> ""

\* list.join(sep)
RECURSIVE Join(_, _)
Join(list, sep) ==
    IF Len(list) = 0 THEN ""
    ELSE IF Len(list) = 1 THEN ToStr(list[1])
    ELSE ToStr(list[1]) \o sep \o Join(Tail(list), sep)

\* crypto.createHash('md5').update(s).digest('hex'): the digest of s, taken
\* to be free of collisions.
md5(s) == [t |-> "string", md5 |-> s]

\* The list of fields that verifyWebhookSignature joins and hashes.
stringToHash(body, secret) ==
    Join(<<body.click_trans_id, body.service_id, Str(secret), body.merchant_trans_id>>
         \o (IF body.action = Num(1) /\ Truthy(body.merchant_prepare_id)
             THEN <<body.merchant_prepare_id>> ELSE <<>>)
         \o <<body.amount, body.action, body.sign_time>>, "|")

\* Variant: merchant_prepare_id is hashed whenever it is present, whatever
\* the action.
verifyWebhookSignature_AnyAction(body, secret) ==
    md5(Join(<<body.click_trans_id, body.service_id, Str(secret), body.merchant_trans_id>>
             \o (IF Truthy(body.merchant_prepare_id)
                 THEN <<body.merchant_prepare_id>> ELSE <<>>)
             \o <<body.amount, body.action, body.sign_time>>, "|")) = body.sign_string

\* verifyWebhookSignature(body, secretKey)
verifyWebhookSignature(body, secret) == md5(stringToHash(body, secret)) = body.sign_string

\* Variant: a body that reports an error is rejected as well.
verifySignature_ErrorChecked(body, secret) ==
    IF ~verifyWebhookSignature(body, secret) \/ body.error # Num(0)
    THEN Threw(ClickError(Str("Invalid webhook signature."), Num(-1)))
    ELSE Returned

\* ClickWebhookHandler.verifySignature(body)
verifySignature(body, secret) ==
    IF ~verifyWebhookSignature(body, secret)
    THEN Threw(ClickError(Str("Invalid webhook signature."), Num(-1)))
    ELSE Returned

\* ------------------------------------------------ function input domains
\* Status codes range over -MaxCode..MaxCode, besides non-numbers.
MaxCode == 30
NaN == [t |-> "NaN"]
StatusCodes == {Num(n) : n \in -MaxCode..MaxCode} \cup {Undef, Null, NaN, Str("2")}

\* Click webhook bodies: every field a string as declared, the action 0 or 1,
\* merchant_prepare_id optional.  Some values contain the separator.
ClickSecrets == {"s1", "s2"}
ClickWebhookBody(transId, serviceId, merchantTransId, prepareId, action, signString) ==
    [t |-> "object", click_trans_id |-> Str(transId), service_id |-> Str(serviceId),
     click_paydoc_id |-> Str("9"), merchant_trans_id |-> Str(merchantTransId),
     amount |-> Str("100"), action |-> Num(action), error |-> Num(0),
     error_note |-> Str("Success"), sign_time |-> Str("t1"),
     sign_string |-> signString, merchant_prepare_id |-> prepareId]
UnsignedBodies ==
    {ClickWebhookBody(a, b, c, d, e, Undef) :
        a \in {"11", "11|22"}, b \in {"33", "22|33"}, c \in {"o1"},
        d \in {Undef, Str(""), Str("55")}, e \in {0, 1}}

\* The signatures a sender may attach: the digest Click computes for the body
\* under either secret, with or without merchant_prepare_id, or any other
\* string.
SignedWith(b, secret, withPrepareId) ==
    md5(Join(<<b.click_trans_id, b.service_id, Str(secret), b.merchant_trans_id>>
             \o (IF withPrepareId THEN <<b.merchant_prepare_id>> ELSE <<>>)
             \o <<b.amount, b.action, b.sign_time>>, "|"))
SignaturesFor(b) ==
    {SignedWith(b, s, w) : s \in ClickSecrets, w \in BOOLEAN} \cup {Str("tampered")}
\* The fields outside the signature: a successful and a cancelled payment.
UnsignedFields ==
    {<<Str("9"), Num(0), Str("Success")>>, <<Str("8"), Num(-9), Str("Transaction cancelled")>>}
ClickWebhookBodies ==
    {[b EXCEPT !.sign_string = g, !.click_paydoc_id = u[1], !.error = u[2], !.error_note = u[3]] :
        b \in UnsignedBodies, g \in UNION {SignaturesFor(x) : x \in UnsignedBodies},
        u \in UnsignedFields}

\* JSON-RPC errors: every locale absent, empty or present.
LocalizedMessages ==
    {Undef} \cup
    {Message(en, ru, uz) : en \in {Undef, Str(""), Str("Invalid request")},
                           ru \in {Undef, Str(""), Str("Nevernyi zapros")},
                           uz \in {Undef, Str(""), Str("Notogri sorov")}}
JsonRpcErrors ==
    {JsonRpcError(c, m, d) : c \in {-32000, -31630}, m \in LocalizedMessages,
                             d \in {Undef, Obj("d1")}}

\* Constructor arguments: every credential missing, empty or given; the
\* logic implementation missing, null or given.
CredentialValues == {Undef, Str(""), Str("x")}
ConstructorCalls ==
    {<<"ClickClient", [t |-> "object", merchantId |-> a, merchantUserId |-> b,
                       secretKey |-> c, serviceId |-> d]>> :
        a \in CredentialValues, b \in CredentialValues, c \in CredentialValues,
        d \in CredentialValues}
    \cup {<<"PaymeClient", [t |-> "object", merchantId |-> a, checkoutKey |-> b,
                            merchantApiSecret |-> c]>> :
            a \in CredentialValues, b \in CredentialValues, c \in CredentialValues}
    \cup {<<"ClickWebhookHandler", [t |-> "object", secretKey |-> a]>> : a \in CredentialValues}
    \cup {<<"PaymeWebhookHandler", [t |-> "object", secretKey |-> a, logic |-> l]>> :
            a \in CredentialValues, l \in {Undef, Null, Obj("logic")}}

\* new ClickClient(config)
newClickClient(config) ==
    IF \/ ~Truthy(config.merchantId) \/ ~Truthy(config.merchantUserId)
       \/ ~Truthy(config.secretKey) \/ ~Truthy(config.serviceId)
    THEN Threw(Error("ClickClient: merchantId, merchantUserId, secretKey, and serviceId are required."))
    ELSE ReturnedValue([t |-> "ClickClient", config |-> config])

\* Variant: the checkoutKey is not checked.
newPaymeClient_KeyUnchecked(config) ==
    IF ~Truthy(config.merchantId) \/ ~Truthy(config.merchantApiSecret)
    THEN Threw(Error("PaymeClient: merchantId, checkoutKey, and merchantApiSecret are required."))
    ELSE ReturnedValue([t |-> "PaymeClient", config |-> config])

\* new PaymeClient(config)
newPaymeClient(config) ==
    IF ~Truthy(config.merchantId) \/ ~Truthy(config.checkoutKey) \/ ~Truthy(config.merchantApiSecret)
    THEN Threw(Error("PaymeClient: merchantId, checkoutKey, and merchantApiSecret are required."))
    ELSE ReturnedValue([t |-> "PaymeClient", config |-> config])

\* new ClickWebhookHandler(secretKey)
newClickWebhookHandler(secret) ==
    IF ~Truthy(secret)
    THEN Threw(Error("ClickWebhookHandler: secretKey is required."))
    ELSE ReturnedValue([t |-> "ClickWebhookHandler", config |-> [t |-> "object", secretKey |-> secret]])

\* new PaymeWebhookHandler(config)
newPaymeWebhookHandler(config) ==
    IF ~Truthy(config.secretKey) \/ ~Truthy(config.logic)
    THEN Threw(Error("PaymeWebhookHandler: secretKey and logic implementation are required."))
    ELSE ReturnedValue([t |-> "PaymeWebhookHandler", config |-> config])

FunctionCalls ==
    {[fn |-> "verifySignature", secretKey |-> s, body |-> b] :
        s \in ClickSecrets, b \in ClickWebhookBodies}
    \cup {[fn |-> f, arg |-> c] :
            f \in {"getStatusFromPaymeReceiptState", "getStatusFromClickCode"},
            c \in StatusCodes}
    \cup {[fn |-> "fromJsonRpcError", arg |-> e] : e \in JsonRpcErrors}
    \cup {[fn |-> "new", class |-> c[1], config |-> c[2]] : c \in ConstructorCalls}

\* ------------------------------------------------- synchronous functions
\* new ClickWebhookHandler(secretKey).verifySignature(body)
VerifySignature ==
    /\ fin.fn = "verifySignature" /\ fout = Pending
    /\ fout' = verifySignature(fin.body, fin.secretKey)
    /\ UNCHANGED <<calls, lifecycle, secretKey, now, hstate, cstate, pstate, kstate, fin>>

NormalizePaymeState ==
    /\ fin.fn = "getStatusFromPaymeReceiptState" /\ fout = Pending
    /\ fout' = ReturnedValue(Str(getStatusFromPaymeReceiptState(fin.arg)))
    /\ UNCHANGED <<calls, lifecycle, secretKey, now, hstate, cstate, pstate, kstate, fin>>

NormalizeClickCode ==
    /\ fin.fn = "getStatusFromClickCode" /\ fout = Pending
    /\ fout' = ReturnedValue(Str(getStatusFromClickCode(fin.arg)))
    /\ UNCHANGED <<calls, lifecycle, secretKey, now, hstate, cstate, pstate, kstate, fin>>

ConvertJsonRpcError ==
    /\ fin.fn = "fromJsonRpcError" /\ fout = Pending
    /\ fout' = ReturnedValue(fromJsonRpcError(fin.arg))
    /\ UNCHANGED <<calls, lifecycle, secretKey, now, hstate, cstate, pstate, kstate, fin>>

\* new C(config) for one of the four classes.
Construct ==
    /\ fin.fn = "new" /\ fout = Pending
    /\ fout' = CASE fin.class = "ClickClient" -> newClickClient(fin.config)
                 [] fin.class = "PaymeClient" -> newPaymeClient(fin.config)
                 [] fin.class = "ClickWebhookHandler" -> newClickWebhookHandler(fin.config.secretKey)
                 [] fin.class = "PaymeWebhookHandler" -> newPaymeWebhookHandler(fin.config)
    /\ UNCHANGED <<calls, lifecycle, secretKey, now, hstate, cstate, pstate, kstate, fin>>

InitFunctions ==
    /\ secretKey = SecretK
    /\ now = 1
    /\ HandlerIdle
    /\ ClientIdle
    /\ RpcIdle
    /\ ClickIdle
    /\ fin \in FunctionCalls
    /\ fout = Pending
    /\ NoCards
    /\ NoInvocations

NextFunctions ==
    \/ VerifySignature
    \/ NormalizePaymeState
    \/ NormalizeClickCode
    \/ ConvertJsonRpcError
    \/ Construct

SpecFunctions == InitFunctions /\ [][NextFunctions]_vars

\* ------------------------------------------------------- ClickClient.ts
\* The config the client was constructed with: every credential non-empty.
ClickConfig ==
    [merchantId |-> "m1", merchantUserId |-> "mu1", secretKey |-> "s1", serviceId |-> "svc1"]

\* crypto.createHash('sha1').update(s).digest('hex'), taken to be free of
\* collisions.
sha1(s) == [t |-> "string", sha1 |-> s]

\* Variant: the token is computed once, at construction (Date.now() = 1),
\* and reused.
getDigestAuthToken_Cached(merchantUserId, secret, time) ==
    [t |-> "string", merchantUserId |-> merchantUserId,
     digest |-> sha1(ToString(1 \div 1000) \o secret), timestamp |-> 1 \div 1000]

\* getDigestAuthToken(merchantUserId, secretKey) at Date.now() = time: the
\* three parts of `${merchantUserId}:${digest}:${timestamp}`.
getDigestAuthToken(merchantUserId, secret, time) ==
    LET timestamp == time \div 1000
        digest == sha1(ToString(timestamp) \o secret)
    IN  [t |-> "string", merchantUserId |-> merchantUserId, digest |-> digest,
         timestamp |-> timestamp]

\* Number(paymentId) for a number or a decimal string up to MaxPaymentId.
MaxPaymentId == 9
ToNumber(v) ==
    IF v.t = "number" THEN v
    ELSE IF \E k \in 0..MaxPaymentId : ToString(k) = v.s
    THEN Num(CHOOSE k \in 0..MaxPaymentId : ToString(k) = v.s)
    ELSE NaN

\* error instanceof Error
InstanceOfError(e) == e.t \in {"Error", "TypeError", "PaymeError", "ClickError"}

\* x < 0 for a JSON value x: undefined compares false.
Negative(x) == x.t = "number" /\ x.n < 0

\* The operations of the client and their arguments.
PaymentIds == {Num(7), Str("7"), Str("abc")}
ClickCalls ==
    {[op |-> "createCardToken",
      params |-> [cardNumber |-> Str("8600123412341234"), expireDate |-> Str("0399"), save |-> s]] :
        s \in {Undef, Bool(FALSE)}}
    \cup {[op |-> "verifyCardToken", params |-> [cardToken |-> Str("tok1"), smsCode |-> Str("111111")]]}
    \cup {[op |-> "chargeFromCardToken", params |-> q] :
            q \in {c \in ChargeParams : c.amount = Num(1000) /\ c.cardToken = Str("tok1")}}
    \cup {[op |-> o, params |-> i] : o \in {"checkPaymentStatus", "cancelPayment"}, i \in PaymentIds}
    \cup {[op |-> "deleteCardToken", params |-> Str("tok1")]}

\* What the provider may answer: any error_code with its note, any payment
\* status, a card token that may be missing or empty; an empty body parses to
\* {} and the body "null" to null.
ErrorNotes ==
    (Num(-5) :> Str("Insufficient funds")) @@ (Num(0) :> Str("Success"))
    @@ (Num(1) :> Str("Processing")) @@ (Undef :> Undef)
ClickResponse(errorCode, paymentStatus, cardToken) ==
    [t |-> "object", error_code |-> errorCode, error_note |-> ErrorNotes[errorCode],
     payment_id |-> IF errorCode = Undef THEN Undef ELSE Num(7),
     payment_status |-> paymentStatus, card_token |-> cardToken]
ClickResponses ==
    {ClickResponse(e, s, c) : e \in DOMAIN ErrorNotes,
                              s \in {Undef, Num(0), Num(2), Num(3)},
                              c \in {Undef, Str(""), Str("tok1")}}
    \cup {Null}
ClickHttpOutcomes ==
    {[k |-> "reject", v |-> Error("Request timeout")]}
    \cup {[k |-> "resolve", v |-> r] : r \in ClickResponses}

\* request(method, endpoint, body): the call handed to the HttpClient.
clickRequestSent(method, endpoint, body, time) ==
    [method |-> method, endpoint |-> endpoint, body |-> body,
     headers |-> [Auth |-> getDigestAuthToken(ClickConfig.merchantUserId, ClickConfig.secretKey, time)]]

\* The HTTP call each operation makes.
clickRequestOf(call, time) ==
    CASE call.op = "createCardToken" ->
           clickRequestSent("post", "/card_token/request",
               [card_number |-> call.params.cardNumber, expire_date |-> call.params.expireDate,
                temporary |-> Num(IF call.params.save = Undef THEN 0
                                  ELSE IF call.params.save.b THEN 0 ELSE 1),
                service_id |-> Str(ClickConfig.serviceId)], time)
      [] call.op = "verifyCardToken" ->
           clickRequestSent("post", "/card_token/verify",
               [service_id |-> Str(ClickConfig.serviceId), card_token |-> call.params.cardToken,
                sms_code |-> call.params.smsCode], time)
      [] call.op = "chargeFromCardToken" ->
           clickRequestSent("post", "/card_token/payment",
               [service_id |-> Str(ClickConfig.serviceId), card_token |-> call.params.cardToken,
                amount |-> call.params.amount, transaction_parameter |-> call.params.orderId], time)
      [] call.op = "checkPaymentStatus" ->
           clickRequestSent("get",
               "/payment/status/" \o ClickConfig.serviceId \o "/" \o ToStr(call.params), Undef, time)
      [] call.op = "cancelPayment" ->
           clickRequestSent("delete",
               "/payment/reversal/" \o ClickConfig.serviceId \o "/" \o ToStr(call.params), Undef, time)
      [] call.op = "deleteCardToken" ->
           clickRequestSent("delete",
               "/card_token/" \o ClickConfig.serviceId \o "/" \o ToStr(call.params), Undef, time)

\* Variant: a transport failure is swallowed and read as an empty response.
clickRequest_Swallowed(http) ==
    IF http.k = "reject"
    THEN ReturnedValue(ClickResponse(Undef, Undef, Undef))
    ELSE ReturnedValue(http.v)

\* request(): what it does once the HttpClient has settled.
clickRequest(http) ==
    IF http.k = "reject"
    THEN IF InstanceOfError(http.v)
         THEN Threw(Error("Click API request failed: " \o http.v.message.s))
         ELSE Threw(Error("An unknown error occurred during the Click API request."))
    ELSE ReturnedValue(http.v)

\* Variant: chargeFromCardToken raises only on a negative error_code.
chargeFails_NegativeOnly(response) == Negative(response.error_code)

\* chargeFromCardToken: the condition under which it throws.
chargeFails(response) ==
    \/ Negative(response.error_code)
    \/ (response.payment_status # Num(2) /\ response.error_code = Num(0))

\* Variant: an empty card_token is not checked.
createCardTokenFails_TokenUnchecked(response) == Negative(response.error_code)

\* createCardToken: the condition under which it throws.
createCardTokenFails(response) ==
    Negative(response.error_code) \/ ~Truthy(response.card_token)

\* What each operation does with the response of its call.
clickProcess(call, response) ==
    IF response = Null
    THEN Threw(TypeError("Cannot read properties of null (reading 'error_code')"))
    ELSE CASE call.op = "createCardToken" ->
                IF createCardTokenFails(response)
                THEN Threw(ClickError(response.error_note, response.error_code))
                ELSE ReturnedValue([t |-> "object", cardToken |-> response.card_token,
                                    requiresVerification |-> Bool(TRUE)])
           [] call.op = "chargeFromCardToken" ->
                IF chargeFails(response)
                THEN Threw(ClickError(response.error_note, response.error_code))
                ELSE ReturnedValue([t |-> "object", transactionId |-> response.payment_id,
                                    status |-> getStatusFromClickCode(response.payment_status)])
           [] call.op = "checkPaymentStatus" ->
                IF Negative(response.error_code)
                THEN Threw(ClickError(response.error_note, response.error_code))
                ELSE ReturnedValue([t |-> "object", transactionId |-> ToNumber(call.params),
                                    status |-> getStatusFromClickCode(response.payment_status)])
           [] call.op = "cancelPayment" ->
                IF Negative(response.error_code)
                THEN Threw(ClickError(response.error_note, response.error_code))
                ELSE ReturnedValue([t |-> "object", transactionId |-> response.payment_id])
           [] OTHER ->
                IF Negative(response.error_code)
                THEN Threw(ClickError(response.error_note, response.error_code))
                ELSE ReturnedValue(Undef)

\* What a settled operation adds to the history of card tokens.
clickLifecycle(call, settled) ==
    IF settled.kind # "resolved" THEN {}
    ELSE IF call.op = "createCardToken" /\ Truthy(settled.env.requiresVerification)
    THEN {<<"click", settled.env.cardToken, "created">>}
    ELSE IF call.op = "verifyCardToken"
    THEN {<<"click", call.params.cardToken, "verified">>}
    ELSE {}

\* An operation of the client is called: it makes its HTTP call.
ClickCall(call) ==
    /\ kpc = "idle"
    /\ kcall' = call
    /\ ksent' = <<clickRequestOf(call, now)>>
    /\ kreceived' = <<>>
    /\ kres' = Pending
    /\ kpc' = "waiting"
    /\ UNCHANGED <<calls, lifecycle, secretKey, now, hstate, cstate, pstate, fstate>>

\* The HTTP call settles and the operation's promise with it.
ClickSettles(http) ==
    /\ kpc = "waiting"
    /\ kreceived' = Append(kreceived, http)
    /\ LET response == clickRequest(http)
           outcome == IF response.threw THEN response ELSE clickProcess(kcall, response.val)
       IN  kres' = IF outcome.threw THEN Rejected(outcome.err) ELSE Resolved(outcome.val)
    /\ lifecycle' = lifecycle \cup clickLifecycle(kcall, kres')
    /\ kpc' = "done"
    /\ UNCHANGED <<calls, secretKey, now, hstate, cstate, pstate, fstate, kcall, ksent>>

\* The caller takes the settled promise.
ClickDeliver ==
    /\ kpc = "done"
    /\ kpc' = "idle"
    /\ kcall' = Undef
    /\ ksent' = <<>>
    /\ kreceived' = <<>>
    /\ kres' = Pending
    /\ UNCHANGED <<calls, lifecycle, secretKey, now, hstate, cstate, pstate, fstate>>

\* Date.now() advances by half a second, up to MaxNow seconds.
HalfSecond == 500
ClickTick ==
    /\ now < MaxNow * 2 * HalfSecond
    /\ now' = now + HalfSecond
    /\ UNCHANGED <<calls, lifecycle, secretKey, hstate, cstate, xstate>>

\* new ClickClient(config) with non-empty credentials.
InitClick ==
    /\ secretKey = SecretK
    /\ now = 1
    /\ HandlerIdle
    /\ ClientIdle
    /\ RpcIdle
    /\ ClickIdle
    /\ NoFunctionCall
    /\ NoCards
    /\ NoInvocations

NextClick ==
    \/ \E call \in ClickCalls : ClickCall(call)
    \/ \E http \in ClickHttpOutcomes : ClickSettles(http)
    \/ ClickDeliver
    \/ ClickTick

SpecClick == InitClick /\ [][NextClick]_vars

\* ------------------------------------ PaymeClient: concurrent invocations
\* The invocations that overlap and what the provider answers them.
ConcurrentCalls ==
    {[op |-> "chargeFromCardToken", params |-> q] : q \in {c \in ChargeParams : c.amount = Num(1000)}}
    \cup {[op |-> "cancelReceipt", params |-> Str("r1")]}
ConcurrentOutcomes ==
    {[k |-> "reject", v |-> Error("Request timeout")]}
    \cup {[k |-> "resolve", v |-> RpcResponse(ReceiptResult(Receipt(i, Num(2))), Undef)] :
            i \in {Str("r1"), Str("r2")}}

\* Variant: the receipt id is kept in a field of the instance, where the
\* latest receipts.create of any invocation overwrites it; here the one of
\* invocation 1 when it has one.
receiptIdOf_InstanceField(i, all) ==
    IF /\ Len(all[1].received) >= 1
       /\ ~request(all[1].received[1]).threw
       /\ all[1].call.op = "chargeFromCardToken"
    THEN request(all[1].received[1]).val.receipt._id
    ELSE request(all[i].received[1]).val.receipt._id

\* chargeFromCardToken: const receiptId = createResult.receipt._id, a local
\* of invocation i.
receiptIdOf(i, all) == request(all[i].received[1]).val.receipt._id

\* The first request of an invocation.
firstRequest(call, time, random) ==
    IF call.op = "chargeFromCardToken"
    THEN requestBody(time, random, "receipts.create", createReceiptParams(call.params))
    ELSE requestBody(time, random, rpcMethodOf(call), rpcParamsOf(call))

\* Invocation i after the post it awaits has settled with http.
afterSettle(i, all, http, time, random) ==
    LET c == [all[i] EXCEPT !.received = Append(@, http)]
        seen == [all EXCEPT ![i] = c]
        result == request(http)
        failed(e) == [c EXCEPT !.pc = "done", !.res = Rejected(e)]
    IN  IF result.threw THEN failed(result.err)
        ELSE IF c.pc = "waiting"
        THEN LET outcome == rpcProcess(c.call, result.val)
             IN  IF outcome.threw THEN failed(outcome.err)
                 ELSE [c EXCEPT !.pc = "done", !.res = Resolved(outcome.val)]
        ELSE IF ReceiptReadThrows(result.val)
        THEN failed(TypeError("Cannot read properties of undefined (reading '_id')"))
        ELSE IF c.pc = "create"
        THEN IF receiptIdMissing(receiptIdOf(i, seen))
             THEN failed(PaymeError(Str("Failed to create receipt."), -32001, Undef))
             ELSE [c EXCEPT !.pc = "pay",
                            !.sent = Append(@, requestBody(time, random, "receipts.pay",
                                         payReceiptParams(receiptIdOf(i, seen), c.call.params)))]
        ELSE [c EXCEPT !.pc = "done", !.res = Resolved(ProcessedReceiptResult(result.val.receipt))]

\* Invocation i starts: it runs up to its first await.
ConcurrentCall(i, call, random) ==
    /\ calls[i].pc = "idle"
    /\ calls' = [calls EXCEPT ![i] =
                    [pc |-> IF call.op = "chargeFromCardToken" THEN "create" ELSE "waiting",
                     call |-> call, sent |-> <<firstRequest(call, now, random)>>,
                     received |-> <<>>, res |-> Pending]]
    /\ UNCHANGED <<lifecycle, secretKey, now, hstate, cstate, xstate>>

\* The post invocation i awaits settles: it runs up to its next await or to
\* its end.
ConcurrentSettles(i, http, random) ==
    /\ calls[i].pc \in {"create", "pay", "waiting"}
    /\ calls' = [calls EXCEPT ![i] = afterSettle(i, calls, http, now, random)]
    /\ UNCHANGED <<lifecycle, secretKey, now, hstate, cstate, xstate>>

InitConcurrent == InitCharge

NextConcurrent ==
    \/ \E i \in Invocations, call \in ConcurrentCalls, random \in Randoms :
          ConcurrentCall(i, call, random)
    \/ \E i \in Invocations, http \in ConcurrentOutcomes, random \in Randoms :
          ConcurrentSettles(i, http, random)

SpecConcurrent == InitConcurrent /\ [][NextConcurrent]_vars

\* ------------------------------------------------------------ both clients
\* One PaymeClient and one ClickClient, every operation of either called one
\* at a time.
InitClients == InitCharge

NextClients ==
    \/ \E call \in RpcCalls, random \in Randoms :
          cpc = "idle" /\ kpc = "idle" /\ RpcCall(call, random)
    \/ \E http \in RpcHttpOutcomes : RpcSettles(http)
    \/ RpcDeliver
    \/ \E params \in ChargeParams, random \in Randoms :
          ppc = "idle" /\ kpc = "idle" /\ ChargeCall(params, random)
    \/ \E http \in HttpOutcomes, random \in Randoms : CreateSettles(http, random)
    \/ \E http \in HttpOutcomes : PaySettles(http)
    \/ ChargeDeliver
    \/ \E call \in ClickCalls : ppc = "idle" /\ cpc = "idle" /\ ClickCall(call)
    \/ \E http \in ClickHttpOutcomes : ClickSettles(http)
    \/ ClickDeliver

SpecClients == InitClients /\ [][NextClients]_vars

\* ------------------------------------------------ webhook dispatcher claims
\* The request passed verifyAuth.
Authenticated == ~verifyAuth(hheader, secretKey).threw

\* The credentials carried by a Basic header, split on the FIRST colon only:
\* the login is what precedes it, the password everything after it.
LoginPart(c) ==
    LET i == FirstColonFrom(c, 1) IN IF i = 0 THEN c ELSE SubSeq(c, 1, i - 1)
HasPassword(c) == FirstColonFrom(c, 1) # 0
PasswordPart(c) == SubSeq(c, FirstColonFrom(c, 1) + 1, Len(c))

\* The header is absent, not Basic, or carries a login other than Paycom or
\* a password (everything after the first colon) other than the secret.
Unauthenticated(header, secret) ==
    \/ ~header.defined
    \/ ~StartsWith(header.s, BasicPrefix)
    \/ LET c == ToAscii(B64Decode(Substring(header.s, 6)))
       IN  LoginPart(c) # PAYME_LOGIN \/ ~HasPassword(c) \/ PasswordPart(c) # secret

\* The call ended in the unauthorized envelope without reaching the logic.
RejectedAsUnauthorized ==
    /\ hpc = "done"
    /\ invoked = <<>>
    /\ hres.kind = "resolved"
    /\ hres.env.keys = {"id", "error"}
    /\ hres.env.error.code = -32504

\* C1: every unauthenticated request (header absent, not Basic, login not
\* Paycom, or password after the first colon different from the secret) is
\* answered {id, error -32504} and no logic operation is invoked.
C1_UnauthenticatedNeverDispatched ==
    (hpc # "idle" /\ Unauthenticated(hheader, secretKey)) => RejectedAsUnauthorized

\* C2: for every configured secret S, the header
\* 'Basic ' + base64('Paycom:' + S) passes authentication.
C2_ConfiguredSecretPasses ==
    (hpc # "idle"
     /\ hheader = HeaderOf(BasicPrefix \o B64Encode(PAYME_LOGIN \o <<Colon>> \o secretKey)))
    => ~RejectedAsUnauthorized

\* C3: the promise returned by handle never rejects.
C3_HandleNeverRejects == hres.kind # "rejected"

\* The logic operation each method name stands for.
OperationOf ==
    [m \in KnownMethods |->
        CASE m = "CheckPerformTransaction" -> "checkPerformTransaction"
          [] m = "CreateTransaction" -> "createTransaction"
          [] m = "PerformTransaction" -> "performTransaction"
          [] m = "CancelTransaction" -> "cancelTransaction"
          [] m = "CheckTransaction" -> "checkTransaction"
          [] m = "GetStatement" -> "getStatement"]

KnownRequest ==
    /\ hpc # "idle"
    /\ Authenticated
    /\ hbody.t = "object"
    /\ hbody.method.t = "string"
    /\ hbody.method.s \in KnownMethods

\* C6: an authenticated request for one of the six methods invokes exactly
\* the matching logic operation, once, with (params, id); the response is
\* {id, result: r} when it resolves {result: r} and {id, error: e} when it
\* resolves {error: e}.
C6_KnownMethodDispatch ==
    KnownRequest =>
        /\ invoked = <<[op |-> OperationOf[hbody.method.s],
                        params |-> hbody.params, id |-> hbody.id]>>
        /\ (hpc = "done" /\ loutcome.k = "resolve" /\ loutcome.v.keys = {"result"})
           => hres = Resolved([id |-> hbody.id, keys |-> {"id", "result"},
                               result |-> loutcome.v.result, error |-> Undef])
        /\ (hpc = "done" /\ loutcome.k = "resolve" /\ loutcome.v.keys = {"error"})
           => hres = Resolved([id |-> hbody.id, keys |-> {"id", "error"},
                               result |-> Undef, error |-> loutcome.v.error])

C6_Witness ==
    /\ KnownRequest /\ hpc = "done"
    /\ hbody.method = Str("CancelTransaction")
    /\ hbody.params = Obj("p1")
    /\ loutcome.k = "resolve" /\ loutcome.v.keys = {"result"}

UnknownRequest ==
    /\ hpc # "idle"
    /\ Authenticated
    /\ hbody.t \notin {"undefined", "null"}
    /\ \A m \in KnownMethods : Field(hbody, "method") # Str(m)

\* C7: an authenticated request whose method is not one of the six names
\* (or is missing) is answered {id, error} with code -32601 and message
\* 'Method not found', whatever the params, and no logic operation runs.
C7_UnknownMethodNotFound ==
    UnknownRequest =>
        /\ hpc = "done"
        /\ invoked = <<>>
        /\ hres.kind = "resolved"
        /\ hres.env.keys = {"id", "error"}
        /\ hres.env.error.code = -32601
        /\ hres.env.error.message.en = Str("Method not found")

C7_Witness ==
    /\ UnknownRequest /\ hpc = "done"
    /\ Field(hbody, "method") = Str("UnknownMethod")
    /\ Field(hbody, "params") = Obj("p1")

\* C8: when the body carries an id (a string or a number, 0 and '' included)
\* every response carries exactly that id.
C8_IdEchoedUnchanged ==
    (hpc = "done" /\ hres.kind = "resolved"
     /\ hbody.t = "object" /\ hbody.id.t \in {"string", "number"})
    => hres.env.id = hbody.id

\* C9: when the body carries no id every response carries a generated,
\* current-time-based id - on the error paths and on the success path.
C9_FallbackIdAlwaysDefined ==
    (hpc = "done" /\ hres.kind = "resolved" /\ BodyId(hbody) = Undef)
    => (hres.env.id.t = "number" /\ hres.env.id.n \in 1..MaxNow)

LogicThrew == hpc = "done" /\ loutcome.k = "reject"

\* C11: a PaymeError(message, code, data) thrown by the logic is answered
\* {id, error: {code, message: {en: message}, data}}; any other thrown error
\* is answered {id, error: {code: -32400, message: {en: 'Internal Server
\* Error'}, data: the thrown error's message}}.
C11_ThrownErrorConverted ==
    /\ (LogicThrew /\ loutcome.v.t = "PaymeError") =>
          /\ hres.kind = "resolved"
          /\ hres.env.keys = {"id", "error"}
          /\ hres.env.error.code = loutcome.v.code
          /\ hres.env.error.message = [t |-> "object", en |-> loutcome.v.message,
                                       ru |-> Undef, uz |-> Undef]
          /\ hres.env.error.data = loutcome.v.data
          /\ Truthy(Field(hbody, "id")) => hres.env.id = hbody.id
    /\ (LogicThrew /\ loutcome.v.t \notin {"PaymeError", "undefined", "null"}) =>
          /\ hres.kind = "resolved"
          /\ hres.env.keys = {"id", "error"}
          /\ hres.env.error.code = -32400
          /\ hres.env.error.message = [t |-> "object", en |-> Str("Internal Server Error"),
                                       ru |-> Undef, uz |-> Undef]
          /\ hres.env.error.data =
                IF loutcome.v.t = "Error" THEN loutcome.v.message ELSE Undef
          /\ Truthy(Field(hbody, "id")) => hres.env.id = hbody.id

C11_Witness ==
    /\ LogicThrew
    /\ loutcome.v = Error("Unexpected error")
    /\ hres.kind = "resolved"
    /\ hres.env.error.data = Str("Unexpected error")

\* What handle answers to (body, header) when the awaited logic operation
\* settles as outcome and the catch block reads the clock at time.
HandleResponse(body, header, outcome, time) ==
    LET auth == verifyAuth(header, secretKey) IN
    IF auth.threw THEN CatchBlock(auth.err, body, time)
    ELSE IF ~CanDestructure(body)
    THEN CatchBlock(TypeError("Cannot destructure property 'id'"), body, time)
    ELSE IF Field(body, "method").t # "string" \/ Field(body, "method").s \notin KnownMethods
    THEN CatchBlock(PaymeError(Str("Method not found"), -32601, Undef), body, time)
    ELSE IF outcome.k = "resolve"
    THEN Resolved(SuccessEnvelope(Field(body, "id"), outcome.v))
    ELSE CatchBlock(outcome.v, body, time)

\* C27 as stated: the response is a function of the body, the header and the
\* logic's outcome only, so it is the response given at time 1.
C27_ResponseFromRequestAlone ==
    hpc = "done" => hres = HandleResponse(hbody, hheader, loutcome, 1)

\* C27, amended: the handler's secret never changes; the response is a
\* function of the body, the header, the logic's outcome and the clock read
\* for a fallback id; and a request is dispatched whatever was handled
\* before it.
C27_StatelessBetweenCalls ==
    /\ [][secretKey' = secretKey]_vars
    /\ [](hpc = "done" => \E time \in 1..now : hres = HandleResponse(hbody, hheader, loutcome, time))
    /\ [](KnownRequest => invoked = <<[op |-> OperationOf[hbody.method.s],
                                       params |-> hbody.params, id |-> hbody.id]>>)
C27_Witness ==
    /\ KnownRequest /\ hpc = "done"
    /\ hbody.method = Str("PerformTransaction")
    /\ hbody.id = Undef
    /\ now = 2
    /\ loutcome.k = "reject"
    /\ hres.kind = "resolved"
    /\ hres.env.id = Num(2)

\* ---------------------------------------------------- charge flow claims
\* receipts.create has returned a result (no error, non-empty result).
CreateSucceeded ==
    /\ Len(received) >= 1
    /\ received[1].k = "resolve"
    /\ received[1].v.error = Undef
    /\ received[1].v.result # Undef

\* receipts.create has failed: transport failure, provider error or empty
\* result.
CreateFailed == Len(received) >= 1 /\ ~CreateSucceeded

\* receipts.create returned a result whose receipt id is empty or missing.
CreateReturnedNoReceiptId ==
    /\ CreateSucceeded
    /\ \/ received[1].v.result.receipt = Undef
       \/ received[1].v.result.receipt._id \in {Undef, Str("")}

\* C4: when receipts.create returned a result whose receipt id is empty or
\* missing, exactly one RPC (receipts.create) has been sent, receipts.pay is
\* never sent and the charge rejects.
C4_NoPayWithoutReceiptId ==
    CreateReturnedNoReceiptId =>
        /\ Len(sent) = 1
        /\ sent[1].method = "receipts.create"
        /\ cpc = "done"
        /\ cres.kind = "rejected"

C4_Witness ==
    /\ CreateReturnedNoReceiptId
    /\ received[1].v.result.receipt # Undef
    /\ received[1].v.result.receipt._id = Str("")
    /\ cpc = "done"

\* C5: receipts.pay is sent only as the second RPC, after receipts.create
\* returned a successful result; its params are exactly that result's
\* receipt id and the caller's card token; if receipts.create fails,
\* receipts.pay is never sent.
C5_CreateThenPay ==
    /\ \A i \in 1..Len(sent) :
          sent[i].method = "receipts.pay" =>
              /\ i = 2
              /\ sent[1].method = "receipts.create"
              /\ CreateSucceeded
              /\ sent[i].params = [id |-> received[1].v.result.receipt._id,
                                   token |-> cparams.cardToken]
    /\ CreateFailed => (Len(sent) = 1 /\ sent[1].method = "receipts.create")
    /\ Len(sent) <= 2
    /\ cpc # "idle" => sent[1].method = "receipts.create"

C5_Witness ==
    /\ Len(sent) = 2
    /\ sent[2].method = "receipts.pay"
    /\ sent[2].params.id = Str("r2")
    /\ cparams.cardToken = Str("tok2")
    /\ cpc = "done" /\ cres.kind = "resolved"

\* ---------------------------------------------- synchronous function claims
SignatureChecked == fin.fn = "verifySignature" /\ fout # Pending
PrepareIdPresent == fin.body.merchant_prepare_id.t = "string" /\ fin.body.merchant_prepare_id # Str("")
PrepareIdAbsent == fin.body.merchant_prepare_id = Undef
SignedString ==
    fin.body.click_trans_id.s \o "|" \o fin.body.service_id.s \o "|" \o fin.secretKey
    \o "|" \o fin.body.merchant_trans_id.s \o "|"
    \o (IF fin.body.action = Num(1) /\ PrepareIdPresent
        THEN fin.body.merchant_prepare_id.s \o "|" ELSE "")
    \o fin.body.amount.s \o "|" \o ToString(fin.body.action.n) \o "|" \o fin.body.sign_time.s

NormalizedPayme == fin.fn = "getStatusFromPaymeReceiptState" /\ fout # Pending
NormalizedClick == fin.fn = "getStatusFromClickCode" /\ fout # Pending
PaymeTable ==
    [c \in {0, 1, 5} |-> "pending"] @@ (2 :> "success") @@ [c \in {3, 4} |-> "cancelled"]
    @@ (6 :> "refunded")
ClickTable ==
    [c \in {0, 1} |-> "pending"] @@ (2 :> "success") @@ [c \in {3, 5} |-> "cancelled"]
    @@ (4 :> "refunded")
InTable(table, code) == code.t = "number" /\ code.n \in DOMAIN table

\* C17: each status normalizer returns the status its table gives for a code
\* of the table, and "failed" for every other input.
C17_NormalizersTotalFailClosed ==
    /\ NormalizedPayme =>
          /\ ~fout.threw
          /\ fout.val = Str(IF InTable(PaymeTable, fin.arg) THEN PaymeTable[fin.arg.n] ELSE "failed")
    /\ NormalizedClick =>
          /\ ~fout.threw
          /\ fout.val = Str(IF InTable(ClickTable, fin.arg) THEN ClickTable[fin.arg.n] ELSE "failed")
C17_Witness == NormalizedClick /\ fin.arg = Num(-1) /\ fout.val = Str(FAILED)

ConvertedError == fin.fn = "fromJsonRpcError" /\ fout # Pending
Available(locale) == fin.arg.message # Undef /\ fin.arg.message[locale].t = "string" /\ fin.arg.message[locale] # Str("")

\* C20: fromJsonRpcError gives a PaymeError whose message is the English text
\* when there is one, else the Russian, else the Uzbek, else the fixed string
\* "Unknown Payme Error", and whose code and data are those of the JSON-RPC
\* error.
C20_FirstAvailableLocale ==
    ConvertedError =>
        /\ ~fout.threw
        /\ fout.val.t = "PaymeError"
        /\ fout.val.message =
              (IF Available("en") THEN fin.arg.message.en
               ELSE IF Available("ru") THEN fin.arg.message.ru
               ELSE IF Available("uz") THEN fin.arg.message.uz
               ELSE Str("Unknown Payme Error"))
        /\ fout.val.code = fin.arg.code
        /\ fout.val.data = fin.arg.data
C20_Witness ==
    /\ ConvertedError
    /\ fin.arg.message # Undef
    /\ fin.arg.message.en = Undef
    /\ fin.arg.message.ru = Str("Nevernyi zapros")
    /\ fin.arg.message.uz = Str("Notogri sorov")
    /\ fout.val.message = Str("Nevernyi zapros")

Constructed == fin.fn = "new" /\ fout # Pending
RequiredFields ==
    [ClickClient |-> {"merchantId", "merchantUserId", "secretKey", "serviceId"},
     PaymeClient |-> {"merchantId", "checkoutKey", "merchantApiSecret"},
     ClickWebhookHandler |-> {"secretKey"},
     PaymeWebhookHandler |-> {"secretKey", "logic"}]
MissingOrEmpty(value) == value \in {Undef, Null, Str("")}

\* C28: constructing ClickClient, PaymeClient, ClickWebhookHandler or
\* PaymeWebhookHandler throws exactly when a required field (a credential,
\* or the logic of PaymeWebhookHandler) is missing or empty; an instance that
\* exists holds only non-empty credentials.
C28_MissingCredentialsThrowAtConstruction ==
    Constructed =>
        /\ fout.threw <=> \E f \in RequiredFields[fin.class] : MissingOrEmpty(fin.config[f])
        /\ ~fout.threw =>
              /\ fout.val.t = fin.class
              /\ \A f \in RequiredFields[fin.class] : ~MissingOrEmpty(fout.val.config[f])
C28_Witness ==
    /\ Constructed
    /\ fin.class = "PaymeClient"
    /\ fin.config.merchantId = Str("x")
    /\ fin.config.checkoutKey = Str("")
    /\ fin.config.merchantApiSecret = Str("x")
    /\ fout.threw
    /\ fout.err.t = "Error"

\* The fields a signature covers; merchant_prepare_id counts when it is part
\* of the hashed list.
SignedFields(b) ==
    <<b.click_trans_id, b.service_id, b.merchant_trans_id,
      IF b.action = Num(1) /\ Truthy(b.merchant_prepare_id) THEN b.merchant_prepare_id ELSE Undef,
      b.amount, b.action, b.sign_time>>

\* C29: a body that differs from the verified one in a signed field yields
\* a different string to hash, and the sign_string that verified the one does
\* not verify the other.
C29_SignedStringUnambiguous ==
    (SignatureChecked /\ fout = Returned) =>
        \A other \in ClickWebhookBodies :
            SignedFields(other) # SignedFields(fin.body) =>
                /\ stringToHash(other, fin.secretKey) # stringToHash(fin.body, fin.secretKey)
                /\ other.sign_string = fin.body.sign_string
                      => ~verifyWebhookSignature(other, fin.secretKey)

\* Two bodies agree on sign_string and on every field the signature covers.
SameSignedPart(a, b) ==
    /\ a.click_trans_id = b.click_trans_id
    /\ a.service_id = b.service_id
    /\ a.merchant_trans_id = b.merchant_trans_id
    /\ a.merchant_prepare_id = b.merchant_prepare_id
    /\ a.amount = b.amount
    /\ a.action = b.action
    /\ a.sign_time = b.sign_time
    /\ a.sign_string = b.sign_string

\* C30: a body that agrees with the checked one on sign_string and on the
\* signed fields gets the same verdict under the same secret, whatever its
\* click_paydoc_id, error and error_note.
C30_VerdictIgnoresUnsignedFields ==
    SignatureChecked =>
        \A other \in ClickWebhookBodies :
            SameSignedPart(other, fin.body) => verifySignature(other, fin.secretKey) = fout
C30_Witness ==
    /\ SignatureChecked
    /\ fin.body.error = Num(-9)
    /\ fin.body.error_note = Str("Transaction cancelled")
    /\ fin.body.click_paydoc_id = Str("8")
    /\ fout = Returned

\* ------------------------------------------------------ Click client claims
\* The operation has settled on a response object of the provider.
ClickAnswered ==
    kpc = "done" /\ kreceived[1].k = "resolve" /\ kreceived[1].v # Null
ClickChargeAnswered == ClickAnswered /\ kcall.op = "chargeFromCardToken"
ProviderResponse == kreceived[1].v
RaisedProviderError ==
    kres = Rejected(ClickError(ProviderResponse.error_note, ProviderResponse.error_code))
ErrorCodeIs(n) == ProviderResponse.error_code = Num(n)
ErrorCodeNegative ==
    ProviderResponse.error_code.t = "number" /\ ProviderResponse.error_code.n < 0
ErrorCodeNonNegative ==
    ProviderResponse.error_code.t = "number" /\ ProviderResponse.error_code.n >= 0
Confirmed == ProviderResponse.payment_status = Num(2)

\* C13: chargeFromCardToken rejects with ClickError(error_note, error_code)
\* exactly when the response has error_code < 0, or error_code = 0 and a
\* payment_status other than 2; otherwise it resolves with
\* {transactionId: payment_id, status: getStatusFromClickCode(payment_status)}.
C13_ChargeRaisesExactlyOnBusinessFailure ==
    ClickChargeAnswered =>
        IF ErrorCodeNegative \/ (ErrorCodeIs(0) /\ ~Confirmed)
        THEN RaisedProviderError
        ELSE kres = Resolved([t |-> "object",
                              transactionId |-> ProviderResponse.payment_id,
                              status |-> getStatusFromClickCode(ProviderResponse.payment_status)])
C13_Witness ==
    /\ ClickChargeAnswered
    /\ ErrorCodeIs(0)
    /\ ProviderResponse.payment_status = Num(0)
    /\ kres.kind = "rejected"
    /\ kres.err = ClickError(Str("Success"), Num(0))

\* C14: whenever chargeFromCardToken resolves, the status it returns is
\* "success"; every response whose payment_status is not 2 makes it reject
\* with a ClickError.
C14_ChargeReturnsOnlySuccess ==
    /\ (kpc = "done" /\ kcall.op = "chargeFromCardToken" /\ kres.kind = "resolved")
          => kres.env.status = SUCCESS
    /\ (ClickChargeAnswered /\ ~Confirmed)
          => (kres.kind = "rejected" /\ kres.err.t = "ClickError")

SingleCheckOps ==
    {"createCardToken", "verifyCardToken", "checkPaymentStatus", "cancelPayment",
     "deleteCardToken"}
CardTokenEmpty == ProviderResponse.card_token \in {Undef, Str("")}

\* C15: for createCardToken, verifyCardToken, checkPaymentStatus,
\* cancelPayment and deleteCardToken a response with a negative error_code
\* makes the operation reject with ClickError(error_note, error_code);
\* createCardToken rejects the same way on an empty card_token; and a
\* response with a non-negative error_code (and, for createCardToken, a
\* non-empty token) makes the operation resolve.
C15_NegativeCodeIsFailure ==
    (ClickAnswered /\ kcall.op \in SingleCheckOps) =>
        /\ ErrorCodeNegative => RaisedProviderError
        /\ (kcall.op = "createCardToken" /\ CardTokenEmpty) => RaisedProviderError
        /\ (ErrorCodeNonNegative /\ (kcall.op = "createCardToken" => ~CardTokenEmpty))
              => kres.kind = "resolved"
C15_Witness ==
    /\ ClickAnswered
    /\ kcall.op = "createCardToken"
    /\ ErrorCodeIs(0)
    /\ ProviderResponse.card_token = Str("")
    /\ kres = Rejected(ClickError(Str("Success"), Num(0)))

\* ------------------------------------------------------ Payme client claims
\* The result/error contract between the response of one RPC and the promise
\* of the operation that ended with it.
RpcContract(http, outcome) ==
    http.k = "resolve" =>
        /\ Truthy(http.v.error) =>
              /\ outcome = Rejected(fromJsonRpcError(http.v.error))
              /\ outcome.err.t = "PaymeError"
              /\ outcome.err.code = http.v.error.code
              /\ outcome.err.data = http.v.error.data
        /\ (~Truthy(http.v.error) /\ ~Truthy(http.v.result)) =>
              /\ outcome.kind = "rejected"
              /\ outcome.err.t = "PaymeError"
              /\ outcome.err.code = -32000
        /\ outcome.kind = "resolved" =>
              (Truthy(http.v.result) /\ ~Truthy(http.v.error))

\* C16: every RPC of PaymeClient (the one RPC of createCardToken,
\* sendVerificationCode, verifyCard, checkReceiptStatus and cancelReceipt,
\* and receipts.create and receipts.pay of chargeFromCardToken): a response
\* with an error rejects the operation with the PaymeError that
\* fromJsonRpcError builds (same code and data), a response with neither error
\* nor result rejects it with a PaymeError of code -32000, and the operation
\* resolves, or goes on to its next RPC, only on a result without error.
C16_ResultErrorContract ==
    /\ ppc = "done" => RpcContract(preceived[1], pres)
    /\ cpc = "done" => RpcContract(received[Len(received)], cres)
    /\ Len(sent) = 2 =>
          /\ received[1].k = "resolve"
          /\ Truthy(received[1].v.result)
          /\ ~Truthy(received[1].v.error)
C16_Witness ==
    /\ ppc = "done"
    /\ pcall.op = "verifyCard"
    /\ preceived[1].k = "resolve"
    /\ Truthy(preceived[1].v.result)
    /\ Truthy(preceived[1].v.error)
    /\ pres.kind = "rejected"
    /\ pres.err.code = -31630

\* C18: cancelReceipt resolves with status "cancelled" (also for a receipt
\* returned in state -1) and with the receipt's _id as transactionId.
C18_CancelReportsCancelled ==
    (ppc = "done" /\ pcall.op = "cancelReceipt" /\ pres.kind = "resolved") =>
        /\ pres.env.status = CANCELLED
        /\ pres.env.transactionId = preceived[1].v.result.receipt._id

ChargeResolved == cpc = "done" /\ cres.kind = "resolved"
PaidReceipt == received[2].v.result.receipt

\* C19: chargeFromCardToken sends receipts.create with the amount times 100
\* (1000 becomes 100000), and when it resolves its status is the
\* normalization of the state of the receipt returned by receipts.pay
\* ("success" for state 2) and its transactionId that receipt's _id.
C19_AmountInMinorUnits ==
    /\ cpc # "idle" =>
          /\ sent[1].method = "receipts.create"
          /\ sent[1].params.amount = Num(100 * cparams.amount.n)
          /\ cparams.amount = Num(1000) => sent[1].params.amount = Num(100000)
    /\ ChargeResolved =>
          /\ cres.env.status = getStatusFromPaymeReceiptState(PaidReceipt.state)
          /\ PaidReceipt.state = Num(2) => cres.env.status = "success"
          /\ cres.env.transactionId = PaidReceipt._id
C19_Witness ==
    /\ ChargeResolved
    /\ cparams.amount = Num(1000)
    /\ sent[1].params.amount = Num(100000)
    /\ PaidReceipt = Receipt(Str("r2"), Num(2))
    /\ cres.env.status = SUCCESS
    /\ cres.env.transactionId = Str("r2")

\* ------------------------------------------------------ both-client claims
\* The errors an operation of either client has rejected with.
SurfacedErrors ==
    {r.err : r \in {x \in {kres, pres, cres} : x.kind = "rejected"}}
IsTypedDomainError(e) ==
    \/ e.t = "ClickError" /\ e.code.t = "number"
    \/ e.t = "PaymeError" /\ e.code \in Int

\* C21: every error an operation of ClickClient or PaymeClient rejects with
\* is a ClickError or a PaymeError that carries a numeric code.
C21_EveryFailureTyped == \A e \in SurfacedErrors : IsTypedDomainError(e)

\* A Payme RPC failed: transport failure, provider-reported error, or a
\* response without result.
RpcFailed(http) ==
    \/ http.k = "reject"
    \/ http.v.error # Undef
    \/ http.v.result = Undef
\* receipts.create failed, or its result has no receipt or no receipt id.
CreateStepFailed(http) ==
    \/ RpcFailed(http)
    \/ http.v.result.receipt = Undef
    \/ http.v.result.receipt._id \in {Undef, Str("")}
\* A Click call failed: transport failure, negative error_code, no token from
\* createCardToken, or a charge answered error_code 0 without confirmation.
ClickCallFailed(op, http) ==
    \/ http.k = "reject"
    \/ http.v = Null
    \/ http.v.error_code.t = "number" /\ http.v.error_code.n < 0
    \/ op = "createCardToken" /\ http.v.card_token \in {Undef, Str("")}
    \/ op = "chargeFromCardToken" /\ http.v.error_code = Num(0) /\ http.v.payment_status # Num(2)

\* C22: an operation makes at most one HTTP call per step (chargeFromCardToken
\* of PaymeClient two: receipts.create, then receipts.pay after create has
\* answered), never two calls outstanding; once a call has failed no further
\* call is made and the operation rejects.
C22_NoRetryNoSwallow ==
    /\ Len(ksent) <= 1 /\ Len(psent) <= 1 /\ Len(sent) <= 2
    /\ Len(kreceived) <= Len(ksent) /\ Len(ksent) <= Len(kreceived) + 1
    /\ Len(preceived) <= Len(psent) /\ Len(psent) <= Len(preceived) + 1
    /\ Len(received) <= Len(sent) /\ Len(sent) <= Len(received) + 1
    /\ Len(sent) = 2 => (sent[1].method = "receipts.create" /\ sent[2].method = "receipts.pay")
    /\ (Len(kreceived) = 1 /\ ClickCallFailed(kcall.op, kreceived[1]))
          => (kpc = "done" /\ Len(ksent) = 1 /\ kres.kind = "rejected")
    /\ (Len(preceived) = 1 /\ RpcFailed(preceived[1]))
          => (ppc = "done" /\ Len(psent) = 1 /\ pres.kind = "rejected")
    /\ (Len(received) >= 1 /\ CreateStepFailed(received[1]))
          => (cpc = "done" /\ Len(sent) = 1 /\ Len(received) = 1 /\ cres.kind = "rejected")
    /\ (Len(received) = 2 /\ RpcFailed(received[2]))
          => (cpc = "done" /\ Len(sent) = 2 /\ cres.kind = "rejected")
C22_Witness ==
    /\ cpc = "done"
    /\ Len(received) = 2
    /\ received[2] = [k |-> "reject", v |-> Error("Request timeout")]
    /\ Len(sent) = 2
    /\ cres = Rejected(Error("Request timeout"))

\* The card token a charge in progress is for, per client.
ClickChargeToken == kcall.params.cardToken
ClickChargeIssued == kpc # "idle" /\ kcall.op = "chargeFromCardToken"
PaymeChargeIssued == cpc # "idle"
Gated(client, token) ==
    <<client, token, "created">> \in lifecycle => <<client, token, "verified">> \in lifecycle

\* C23: when a client has issued a charge for a token that was created as
\* requiring verification, a verification call for that token has succeeded
\* before.
C23_ChargeOnlyAfterVerification ==
    /\ ClickChargeIssued => Gated("click", ClickChargeToken)
    /\ PaymeChargeIssued => Gated("payme", cparams.cardToken)

\* ------------------------------------------------------ concurrency claims
\* What an invocation returns when it runs alone and the provider answers
\* its posts with the given responses, in order.
Alone(call, responses) ==
    LET first == request(responses[1])
        last == request(responses[Len(responses)])
        processed(receipt) ==
            [transactionId |-> receipt._id,
             status |-> getStatusFromPaymeReceiptState(receipt.state),
             receipt |-> receipt]
    IN  IF first.threw THEN Rejected(first.err)
        ELSE IF call.op = "cancelReceipt" THEN Resolved(processed(first.val.receipt))
        ELSE IF last.threw THEN Rejected(last.err)
        ELSE Resolved(processed(last.val.receipt))
OwnReceiptId(i) == calls[i].received[1].v.result.receipt._id

\* C24: whatever the interleaving of the invocations on one PaymeClient, the
\* receipts.pay of each carries the receipt id its own receipts.create
\* returned and its own card token, and each invocation settles as it would
\* alone on the responses it received.
C24_InvocationsDoNotInterfere ==
    \A i \in Invocations :
        /\ Len(calls[i].sent) = 2 =>
              /\ calls[i].sent[2].method = "receipts.pay"
              /\ calls[i].sent[2].params.id = OwnReceiptId(i)
              /\ calls[i].sent[2].params.token = calls[i].call.params.cardToken
        /\ calls[i].pc = "done" => calls[i].res = Alone(calls[i].call, calls[i].received)
C24_Witness ==
    /\ calls[1].pc = "done" /\ calls[2].pc = "done"
    /\ calls[1].call.op = "chargeFromCardToken" /\ calls[2].call.op = "chargeFromCardToken"
    /\ calls[1].call.params.cardToken = Str("tok1") /\ calls[2].call.params.cardToken = Str("tok2")
    /\ Len(calls[1].sent) = 2 /\ Len(calls[2].sent) = 2
    /\ calls[1].res.kind = "resolved" /\ calls[2].res.kind = "resolved"
    /\ OwnReceiptId(1) = Str("r1") /\ OwnReceiptId(2) = Str("r2")
    /\ calls[1].res.env.transactionId = Str("r1")
    /\ calls[2].res.env.transactionId = Str("r2")

\* ------------------------------------------------------- request id claims
\* C25: the two JSON-RPC requests of one charge carry different ids, also
\* when both are issued within the same millisecond.
C25_RequestIdsNeverCollide == Len(sent) = 2 => sent[1].id # sent[2].id

\* ------------------------------------------------------ Click Auth claims
\* The token '{merchantUserId}:{sha1(timestamp + secret)}:{timestamp}' for
\* the Unix second of time, by its three parts.
TokenAt(time) ==
    [t |-> "string", merchantUserId |-> "mu1",
     digest |-> [t |-> "string", sha1 |-> ToString(time \div 1000) \o "s1"],
     timestamp |-> time \div 1000]

\* C26: every HTTP call of ClickClient carries the Auth token of the second
\* in which the call is made; tokens of one second are equal and tokens of
\* different seconds differ.
C26_AuthComputedPerCall ==
    [][(kpc = "idle" /\ kpc' # "idle") =>
          /\ Len(ksent') = 1
          /\ ksent'[1].headers.Auth = TokenAt(now)
          /\ \A u \in {1, 500, 999, 1000, 1001, MaxNow * 1000} :
                (TokenAt(u) = TokenAt(now)) <=> (u \div 1000 = now \div 1000)]_vars
C26_Witness ==
    /\ kpc = "waiting"
    /\ now = 1001
    /\ ksent[1].headers.Auth.timestamp = 1
    /\ ksent[1].headers.Auth.digest = sha1("1s1")

====
